---- MODULE Spec2Model ----
(***************************************************************************)
(* A model of jehiah/lru: the LRU cache of lru.go (index `table`, recency  *)
(* `list`, optional loader `addFunc`, optional `removalFunc`, optional     *)
(* `ttl`) and the LRUCounter built on it.                                  *)
(*                                                                         *)
(* A list element is the record [Key, Value, lastUpdate]; `list` is read   *)
(* front (most recently used) to back.  `table` is the set of keys whose   *)
(* map slot holds a non-nil element.  A callback invocation is appended to *)
(* `calls` as <<key, value>>, in the order the code makes it.              *)
(***************************************************************************)
EXTENDS Integers, Sequences, FiniteSets

\* ------------------------------------------------------------------ bounds
NKeys == 3
NVals == 2
MaxCap == 2
MaxTime == 2
TTL == 1
MaxSum == 4
MaxDelta == 2
NProcs == 2

Keys == 1..NKeys
Values == 1..NVals
Procs == 1..NProcs
Deltas == 1..MaxDelta

\* the nil interface value returned by a miss, and time.Time's zero value
Nil == 0
ZeroTime == 0

VARIABLES
    capacity,       \* lru.capacity
    ttl,            \* lru.ttl (0 = disabled)
    addFunc,        \* lru.addFunc != nil
    removalFunc,    \* lru.removalFunc != nil
    touchOnUpdate,  \* cleared by DisableTouchOnUpdate
    list,           \* lru.list, front first
    table,          \* keys of lru.table
    now,            \* time.Now()
    op,             \* the last call and what it returned
    calls,          \* removalFunc invocations made by the last call, in order
    loads,          \* addFunc invocations made by the last call
    used,           \* recency rank of each key's most recent use (0 = never used)
    sinceFlush,     \* <<S>>: only the distinct keys S were inserted since a Flush, at most
                    \* Capacity() of them; <<>> otherwise
    sum,            \* per key, the sum of the deltas passed to Incr
    reported,       \* per key, the sum of the totals the counter's callback received
    pc,             \* per goroutine, its position inside Incr
    cmu,            \* holder of LRUCounter's embedded sync.Mutex (0 = free)
    loc,            \* per goroutine, Incr's key, the delta it was called with, and value
    mu,             \* holder of lru.mu (0 = free)
    flush           \* a Flush in progress: its position, its loop variable e, and what
                    \* became of the entries it met

cacheVars == <<capacity, ttl, addFunc, removalFunc, touchOnUpdate, list, table>>
logVars == <<op, calls, loads, used, sinceFlush>>
counterVars == <<sum, reported>>
procVars == <<pc, cmu, loc, mu, flush>>
vars == <<capacity, ttl, addFunc, removalFunc, touchOnUpdate, list, table, now,
          op, calls, loads, used, sinceFlush, sum, reported, pc, cmu, loc, mu, flush>>

\* ------------------------------------------------------- container/list
PushFront(l, e) == <<e>> \o l

RemoveAt(l, i) == SubSeq(l, 1, i - 1) \o SubSeq(l, i + 1, Len(l))

MoveToFront(l, i) == <<l[i]>> \o RemoveAt(l, i)

Back(l) == l[Len(l)]

\* the position of the element lru.table[key] points at
Element(l, key) == CHOOSE i \in 1..Len(l) : l[i].Key = key

ListKeys(l) == {l[i].Key : i \in 1..Len(l)}

\* ------------------------------------------------------------- the cache
\* The working state of one call: the two structures, the callback and
\* loader invocations made so far, and the call's result.
Entering == [list |-> list, table |-> table, calls |-> <<>>, loads |-> 0,
             ok |-> FALSE, v |-> Nil]

Notify(s, e) ==
    IF removalFunc THEN [s EXCEPT !.calls = Append(@, <<e.Key, e.Value>>)] ELSE s

\* checkCapacity that takes its victims from the front
RECURSIVE checkCapacity_Front(_)
checkCapacity_Front(s) ==
    IF Len(s.list) > capacity
    THEN LET delValue == s.list[1]
             s1 == [s EXCEPT !.list = RemoveAt(@, 1), !.table = @ \ {delValue.Key}]
         IN checkCapacity_Front(Notify(s1, delValue))
    ELSE s

RECURSIVE checkCapacity(_)
checkCapacity(s) ==
    IF Len(s.list) > capacity
    THEN LET delValue == Back(s.list)
             s1 == [s EXCEPT !.list = RemoveAt(@, Len(s.list)),
                             !.table = @ \ {delValue.Key}]
         IN checkCapacity(Notify(s1, delValue))
    ELSE s

\* addNew without the capacity check
addNew_NoEvict(s, key, value) ==
    LET e == [Key |-> key, Value |-> value,
              lastUpdate |-> IF ttl > 0 THEN now ELSE ZeroTime]
    IN [s EXCEPT !.list = PushFront(@, e), !.table = @ \cup {key}]

\* addNew that leaves the new element out of the table
addNew_NoIndex(s, key, value) ==
    LET e == [Key |-> key, Value |-> value,
              lastUpdate |-> IF ttl > 0 THEN now ELSE ZeroTime]
    IN checkCapacity([s EXCEPT !.list = PushFront(@, e)])

\* addNew that evicts as soon as the cache is full
addNew_EvictWhenFull(s, key, value) ==
    LET e == [Key |-> key, Value |-> value,
              lastUpdate |-> IF ttl > 0 THEN now ELSE ZeroTime]
        s1 == [s EXCEPT !.list = PushFront(@, e), !.table = @ \cup {key}]
    IN IF Len(s1.list) > 1 /\ Len(s1.list) >= capacity
       THEN Notify([s1 EXCEPT !.list = RemoveAt(@, Len(s1.list)),
                              !.table = @ \ {Back(s1.list).Key}], Back(s1.list))
       ELSE s1

addNew(s, key, value) ==
    LET e == [Key |-> key, Value |-> value,
              lastUpdate |-> IF ttl > 0 THEN now ELSE ZeroTime]
    IN checkCapacity([s EXCEPT !.list = PushFront(@, e), !.table = @ \cup {key}])

\* whether updateInplace refreshes the timestamp: always in lru.go, and until
\* DisableTouchOnUpdate is called in the version LRUCounter delegates to
TouchOnSet == touchOnUpdate

\* updateInplace that never refreshes the timestamp
updateInplace_NoTouch(s, i, value) ==
    LET e == [s.list[i] EXCEPT !.Value = value]
    IN [s EXCEPT !.list = MoveToFront([@ EXCEPT ![i] = e], i)]

updateInplace(s, i, value) ==
    LET e == [s.list[i] EXCEPT !.Value = value,
                               !.lastUpdate = IF ttl > 0 /\ TouchOnSet THEN now ELSE @]
    IN [s EXCEPT !.list = MoveToFront([@ EXCEPT ![i] = e], i)]

\* a load that returns the value without inserting it
Load_NoInsert(s, key, lv) ==
    [s EXCEPT !.loads = @ + 1, !.ok = TRUE, !.v = lv]

\* Get(key), with lv the value addFunc would return for key
Load(s, key, lv) ==
    [addNew([s EXCEPT !.loads = @ + 1], key, lv) EXCEPT !.ok = TRUE, !.v = lv]

\* Get whose hit leaves the element where it is
Get_NoMove(s, key, lv) ==
    IF key \notin s.table
    THEN IF addFunc THEN Load(s, key, lv) ELSE [s EXCEPT !.ok = FALSE, !.v = Nil]
    ELSE LET i == Element(s.list, key)
             e == s.list[i]
         IN IF ttl > 0 /\ now - e.lastUpdate > ttl
            THEN LET s1 == [Notify(s, e) EXCEPT !.list = RemoveAt(@, i),
                                                !.table = @ \ {key}]
                 IN IF addFunc THEN Load(s1, key, lv)
                    ELSE [s1 EXCEPT !.ok = FALSE, !.v = Nil]
            ELSE [s EXCEPT !.ok = TRUE, !.v = e.Value]

\* Get that expires an entry as soon as its age reaches the ttl
Get_AtTTL(s, key, lv) ==
    IF key \notin s.table
    THEN IF addFunc THEN Load(s, key, lv) ELSE [s EXCEPT !.ok = FALSE, !.v = Nil]
    ELSE LET i == Element(s.list, key)
             e == s.list[i]
         IN IF ttl > 0 /\ now - e.lastUpdate >= ttl
            THEN LET s1 == [Notify(s, e) EXCEPT !.list = RemoveAt(@, i),
                                                !.table = @ \ {key}]
                 IN IF addFunc THEN Load(s1, key, lv)
                    ELSE [s1 EXCEPT !.ok = FALSE, !.v = Nil]
            ELSE [s EXCEPT !.list = MoveToFront(@, i), !.ok = TRUE, !.v = e.Value]

\* Get whose miss without a loader leaves a nil entry behind
Get_MissInserts(s, key, lv) ==
    IF key \notin s.table
    THEN IF addFunc THEN Load(s, key, lv)
         ELSE [addNew(s, key, Nil) EXCEPT !.ok = FALSE, !.v = Nil]
    ELSE LET i == Element(s.list, key)
             e == s.list[i]
         IN IF ttl > 0 /\ now - e.lastUpdate > ttl
            THEN LET s1 == [Notify(s, e) EXCEPT !.list = RemoveAt(@, i),
                                                !.table = @ \ {key}]
                 IN IF addFunc THEN Load(s1, key, lv)
                    ELSE [s1 EXCEPT !.ok = FALSE, !.v = Nil]
            ELSE [s EXCEPT !.list = MoveToFront(@, i), !.ok = TRUE, !.v = e.Value]

\* Get whose hit refreshes the timestamp
Get_Touch(s, key, lv) ==
    IF key \notin s.table
    THEN IF addFunc THEN Load(s, key, lv) ELSE [s EXCEPT !.ok = FALSE, !.v = Nil]
    ELSE LET i == Element(s.list, key)
             e == s.list[i]
         IN IF ttl > 0 /\ now - e.lastUpdate > ttl
            THEN LET s1 == [Notify(s, e) EXCEPT !.list = RemoveAt(@, i),
                                                !.table = @ \ {key}]
                 IN IF addFunc THEN Load(s1, key, lv)
                    ELSE [s1 EXCEPT !.ok = FALSE, !.v = Nil]
            ELSE [s EXCEPT !.list = MoveToFront([@ EXCEPT ![i].lastUpdate =
                                                    IF ttl > 0 /\ touchOnUpdate
                                                    THEN now ELSE @], i),
                           !.ok = TRUE, !.v = e.Value]

\* Get whose hit asks the loader for a fresh value
Get_HitLoads(s, key, lv) ==
    IF key \notin s.table
    THEN IF addFunc THEN Load(s, key, lv) ELSE [s EXCEPT !.ok = FALSE, !.v = Nil]
    ELSE LET i == Element(s.list, key)
             e == s.list[i]
         IN IF ttl > 0 /\ now - e.lastUpdate > ttl
            THEN LET s1 == [Notify(s, e) EXCEPT !.list = RemoveAt(@, i),
                                                !.table = @ \ {key}]
                 IN IF addFunc THEN Load(s1, key, lv)
                    ELSE [s1 EXCEPT !.ok = FALSE, !.v = Nil]
            ELSE IF addFunc
                 THEN [s EXCEPT !.list = MoveToFront([@ EXCEPT ![i].Value = lv], i),
                                !.loads = 1, !.ok = TRUE, !.v = lv]
                 ELSE [s EXCEPT !.list = MoveToFront(@, i), !.ok = TRUE, !.v = e.Value]

Get(s, key, lv) ==
    IF key \notin s.table
    THEN IF addFunc THEN Load(s, key, lv) ELSE [s EXCEPT !.ok = FALSE, !.v = Nil]
    ELSE LET i == Element(s.list, key)
             e == s.list[i]
         IN IF ttl > 0 /\ now - e.lastUpdate > ttl
            THEN LET s1 == [Notify(s, e) EXCEPT !.list = RemoveAt(@, i),
                                                !.table = @ \ {key}]
                 IN IF addFunc THEN Load(s1, key, lv)
                    ELSE [s1 EXCEPT !.ok = FALSE, !.v = Nil]
            ELSE [s EXCEPT !.list = MoveToFront(@, i), !.ok = TRUE, !.v = e.Value]

\* Set that treats an expired entry as Get does: reports it, removes it and
\* inserts the value anew
Set_Expiring(s, key, value) ==
    IF key \in s.table
    THEN LET i == Element(s.list, key)
             e == s.list[i]
         IN IF ttl > 0 /\ now - e.lastUpdate > ttl
            THEN addNew([Notify(s, e) EXCEPT !.list = RemoveAt(@, i),
                                             !.table = @ \ {key}], key, value)
            ELSE updateInplace(s, i, value)
    ELSE addNew(s, key, value)

Set(s, key, value) ==
    IF key \in s.table
    THEN updateInplace(s, Element(s.list, key), value)
    ELSE addNew(s, key, value)

\* Delete that does not tell the callback
Delete_Silent(s, key) ==
    IF key \notin s.table
    THEN [s EXCEPT !.ok = FALSE]
    ELSE LET i == Element(s.list, key)
         IN [s EXCEPT !.list = RemoveAt(@, i), !.table = @ \ {key}, !.ok = TRUE]

\* Delete that reports true for a key that is not there
Delete_AlwaysTrue(s, key) ==
    IF key \notin s.table
    THEN [s EXCEPT !.ok = TRUE]
    ELSE LET i == Element(s.list, key)
         IN [Notify(s, s.list[i]) EXCEPT !.list = RemoveAt(@, i),
                                         !.table = @ \ {key}, !.ok = TRUE]

Delete(s, key) ==
    IF key \notin s.table
    THEN [s EXCEPT !.ok = FALSE]
    ELSE LET i == Element(s.list, key)
         IN [Notify(s, s.list[i]) EXCEPT !.list = RemoveAt(@, i),
                                         !.table = @ \ {key}, !.ok = TRUE]

RECURSIVE FlushLoop(_, _)
FlushLoop(s, i) ==
    IF i > Len(s.list) THEN s ELSE FlushLoop(Notify(s, s.list[i]), i + 1)

\* Flush that reports the entries and keeps them
Flush_KeepList(s) == [FlushLoop(s, 1) EXCEPT !.table = {}]

\* Flush that walks the list from the back
RECURSIVE FlushLoopBack(_, _)
FlushLoopBack(s, i) ==
    IF i < 1 THEN s ELSE FlushLoopBack(Notify(s, s.list[i]), i - 1)

Flush_BackFirst(s) ==
    [FlushLoopBack(s, Len(s.list)) EXCEPT !.list = <<>>, !.table = {}]

Flush(s) == [FlushLoop(s, 1) EXCEPT !.list = <<>>, !.table = {}]

\* FlushN that takes the entries from the front
RECURSIVE FlushN_FrontFirst(_, _)
FlushN_FrontFirst(s, n) ==
    IF n <= 0 \/ Len(s.list) = 0
    THEN s
    ELSE LET delValue == s.list[1]
             s1 == [s EXCEPT !.list = RemoveAt(@, 1), !.table = @ \ {delValue.Key}]
         IN FlushN_FrontFirst(Notify(s1, delValue), n - 1)

\* FlushN(n): the n least recently used entries leave, the least recently used
\* first, each reported to the callback; all of them when n >= Len()
RECURSIVE FlushN(_, _)
FlushN(s, n) ==
    IF n <= 0 \/ Len(s.list) = 0
    THEN s
    ELSE LET delValue == Back(s.list)
             s1 == [s EXCEPT !.list = RemoveAt(@, Len(s.list)),
                             !.table = @ \ {delValue.Key}]
         IN FlushN(Notify(s1, delValue), n - 1)

LenOf(l) == Len(l)

Capacity == capacity

\* ------------------------------------------------------------ LRUCounter
\* Incr whose Set writes the delta over the total
Incr_Overwrite(s, key, value) == Set(Get(s, key, Nil), key, value)

\* LRUCounter.Incr between Lock and Unlock: Get, add, Set
Incr(s, key, value) ==
    LET g == Get(s, key, Nil)
    IN Set(g, key, IF g.ok THEN value + g.v ELSE value)

\* Incr that does not wait for the mutex
Lock_NoWait(p) == cmu' = p

\* c.Lock()
Lock(p) == cmu = 0 /\ cmu' = p

\* c.Unlock()
Unlock(p) == cmu' = 0

\* ------------------------------------------------------- what a caller sees
Max(S) == CHOOSE x \in S : \A y \in S : y <= x

\* key becomes the most recently used: it takes the highest rank, and the ranks
\* of the keys used so far are renumbered 1..n in the order of their last use
Touch(u, key) ==
    LET top == [u EXCEPT ![key] = Max({u[k] : k \in Keys}) + 1]
    IN [k \in Keys |->
          IF top[k] = 0 THEN 0
          ELSE Cardinality({j \in Keys : top[j] > 0 /\ top[j] <= top[k]})]

Returned(r, name, key, arg) ==
    /\ list' = r.list
    /\ table' = r.table
    /\ calls' = r.calls
    /\ loads' = r.loads
    /\ op' = [name |-> name, key |-> key, arg |-> arg, ok |-> r.ok, v |-> r.v]

\* a call that inserts key: the run of insertions after a Flush goes on while the
\* keys are distinct and no more than Capacity() of them
Inserting(key) ==
    sinceFlush' = IF /\ sinceFlush # <<>>
                     /\ key \notin sinceFlush[1]
                     /\ Cardinality(sinceFlush[1]) < capacity
                  THEN <<sinceFlush[1] \cup {key}>>
                  ELSE <<>>

\* ----------------------------------------------------------------- New
New ==
    /\ capacity \in 1..MaxCap
    /\ ttl \in {0, TTL}
    /\ addFunc \in BOOLEAN
    /\ removalFunc \in BOOLEAN
    /\ touchOnUpdate = TRUE
    /\ list = <<>>
    /\ table = {}

\* no Flush is running: e is nil and nothing is on record
NoFlush == [pc |-> "idle", e |-> [Key |-> Nil, Value |-> Nil, at |-> "nil"],
            seen |-> {}, lost |-> {}, twice |-> FALSE]

Idle ==
    /\ now = 0
    /\ op = [name |-> "New", key |-> Nil, arg |-> Nil, ok |-> FALSE, v |-> Nil]
    /\ calls = <<>>
    /\ loads = 0
    /\ used = [k \in Keys |-> 0]
    /\ sinceFlush = <<>>
    /\ sum = [k \in Keys |-> 0]
    /\ reported = [k \in Keys |-> 0]
    /\ pc = [p \in Procs |-> "idle"]
    /\ cmu = 0
    /\ loc = [p \in Procs |-> [key |-> Nil, delta |-> 0, value |-> 0]]
    /\ mu = 0
    /\ flush = NoFlush

Init == New /\ Idle

\* ------------------------------------------------- calls on the cache
CallGet(key) ==
    \E lv \in Values :
        LET r == Get(Entering, key, lv)
        IN /\ Returned(r, "Get", key, Nil)
           /\ used' = IF r.ok THEN Touch(used, key) ELSE used
           /\ IF addFunc THEN Inserting(key) ELSE sinceFlush' = <<>>
           /\ UNCHANGED <<mu, flush, capacity, ttl, addFunc, removalFunc, touchOnUpdate, now,
                          sum, reported, pc, cmu, loc>>

CallSet(key, value) ==
    LET r == Set(Entering, key, value)
    IN /\ Returned(r, "Set", key, value)
       /\ used' = Touch(used, key)
       /\ Inserting(key)
       /\ UNCHANGED <<mu, flush, capacity, ttl, addFunc, removalFunc, touchOnUpdate, now,
                      sum, reported, pc, cmu, loc>>

CallDelete(key) ==
    LET r == Delete(Entering, key)
    IN /\ Returned(r, "Delete", key, Nil)
       /\ sinceFlush' = <<>>
       /\ UNCHANGED <<mu, flush, capacity, ttl, addFunc, removalFunc, touchOnUpdate, now,
                      used, sum, reported, pc, cmu, loc>>

CallFlush ==
    LET r == Flush(Entering)
    IN /\ Returned(r, "Flush", Nil, Nil)
       /\ sinceFlush' = <<{}>>
       /\ UNCHANGED <<mu, flush, capacity, ttl, addFunc, removalFunc, touchOnUpdate, now,
                      used, sum, reported, pc, cmu, loc>>

CallFlushN(n) ==
    LET r == FlushN(Entering, n)
    IN /\ Returned(r, "FlushN", Nil, n)
       /\ sinceFlush' = <<>>
       /\ UNCHANGED <<mu, flush, capacity, ttl, addFunc, removalFunc, touchOnUpdate, now,
                      used, sum, reported, pc, cmu, loc>>

\* the flag is read only when ttl > 0
DisableTouchOnUpdate ==
    /\ ttl > 0
    /\ touchOnUpdate' = FALSE
    /\ op' = [name |-> "DisableTouchOnUpdate", key |-> Nil, arg |-> Nil,
              ok |-> FALSE, v |-> Nil]
    /\ calls' = <<>>
    /\ loads' = 0
    /\ UNCHANGED <<mu, flush, capacity, ttl, addFunc, removalFunc, list, table, now,
                   used, sinceFlush, sum, reported, pc, cmu, loc>>

\* time passes between calls; the clock is read only when ttl > 0
Tick ==
    /\ ttl > 0
    /\ now < MaxTime
    /\ now' = now + 1
    /\ op' = [name |-> "Tick", key |-> Nil, arg |-> Nil, ok |-> FALSE, v |-> Nil]
    /\ calls' = <<>>
    /\ loads' = 0
    /\ UNCHANGED <<mu, flush, capacity, ttl, addFunc, removalFunc, touchOnUpdate, list, table,
                   used, sinceFlush, sum, reported, pc, cmu, loc>>

Next ==
    \/ \E key \in Keys : CallGet(key)
    \/ \E key \in Keys, value \in Values : CallSet(key, value)
    \/ \E key \in Keys : CallDelete(key)
    \/ CallFlush
    \/ \E n \in 0..MaxCap + 1 : CallFlushN(n)
    \/ DisableTouchOnUpdate
    \/ Tick

Spec == Init /\ [][Next]_vars

\* ----------------------------------------------- calls on the LRUCounter
NewLRUCounterTTL ==
    /\ capacity \in 1..MaxCap
    /\ ttl \in {0, TTL}
    /\ addFunc = FALSE
    /\ removalFunc = TRUE
    /\ touchOnUpdate = TRUE
    /\ list = <<>>
    /\ table = {}

InitCounter == NewLRUCounterTTL /\ Idle

RECURSIVE SumSeq(_)
SumSeq(s) == IF s = <<>> THEN 0 ELSE Head(s) + SumSeq(Tail(s))

RECURSIVE SumOver(_, _)
SumOver(f, S) ==
    IF S = {} THEN 0
    ELSE LET x == CHOOSE y \in S : TRUE IN f[x] + SumOver(f, S \ {x})

\* the counter's removalFunc adds the total it is given to the key's account
Reporting(cs) ==
    reported' = [k \in Keys |->
        reported[k] + SumSeq([i \in 1..Len(SelectSeq(cs, LAMBDA c : c[1] = k)) |->
                                 SelectSeq(cs, LAMBDA c : c[1] = k)[i][2]])]

Budget(delta) == SumOver(sum, Keys) + delta <= MaxSum

CallIncr(key, delta) ==
    /\ Budget(delta)
    /\ LET r == Incr(Entering, key, delta)
       IN /\ Returned(r, "Incr", key, delta)
          /\ Reporting(r.calls)
    /\ sum' = [sum EXCEPT ![key] = @ + delta]
    /\ used' = Touch(used, key)
    /\ sinceFlush' = <<>>
    /\ UNCHANGED <<mu, flush, capacity, ttl, addFunc, removalFunc, touchOnUpdate, now,
                   pc, cmu, loc>>

CounterFlush ==
    /\ LET r == Flush(Entering)
       IN /\ Returned(r, "Flush", Nil, Nil)
          /\ Reporting(r.calls)
    /\ sinceFlush' = <<{}>>
    /\ UNCHANGED <<mu, flush, capacity, ttl, addFunc, removalFunc, touchOnUpdate, now,
                   used, sum, pc, cmu, loc>>

NextCounter ==
    \/ \E key \in Keys, delta \in Deltas : CallIncr(key, delta)
    \/ CounterFlush
    \/ DisableTouchOnUpdate
    \/ Tick

SpecCounter == InitCounter /\ [][NextCounter]_vars

\* ------------------------------------- goroutines calling Incr concurrently
\* lru.Get and lru.Set hold lru.mu from entry to return, so each is one step.
IncrCall(p, key, delta) ==
    /\ pc[p] = "idle"
    /\ Budget(delta)
    /\ pc' = [pc EXCEPT ![p] = "lock"]
    /\ loc' = [loc EXCEPT ![p] = [key |-> key, delta |-> delta, value |-> delta]]
    /\ sum' = [sum EXCEPT ![key] = @ + delta]
    /\ op' = [name |-> "Incr", key |-> key, arg |-> delta, ok |-> FALSE, v |-> Nil]
    /\ calls' = <<>>
    /\ loads' = 0
    /\ UNCHANGED <<mu, flush, capacity, ttl, addFunc, removalFunc, touchOnUpdate, list, table,
                   now, used, sinceFlush, reported, cmu>>

IncrLock(p) ==
    /\ pc[p] = "lock"
    /\ Lock(p)
    /\ pc' = [pc EXCEPT ![p] = "get"]
    /\ op' = [name |-> "Lock", key |-> Nil, arg |-> Nil, ok |-> FALSE, v |-> Nil]
    /\ calls' = <<>>
    /\ loads' = 0
    /\ UNCHANGED <<mu, flush, capacity, ttl, addFunc, removalFunc, touchOnUpdate, list, table,
                   now, used, sinceFlush, sum, reported, loc>>

IncrGet(p) ==
    /\ pc[p] = "get"
    /\ LET r == Get(Entering, loc[p].key, Nil)
       IN /\ Returned(r, "Get", loc[p].key, Nil)
          /\ Reporting(r.calls)
          /\ used' = IF r.ok THEN Touch(used, loc[p].key) ELSE used
          /\ loc' = [loc EXCEPT ![p].value = IF r.ok THEN @ + r.v ELSE @]
    /\ pc' = [pc EXCEPT ![p] = "set"]
    /\ sinceFlush' = <<>>
    /\ UNCHANGED <<mu, flush, capacity, ttl, addFunc, removalFunc, touchOnUpdate, now, sum, cmu>>

IncrSet(p) ==
    /\ pc[p] = "set"
    /\ LET r == Set(Entering, loc[p].key, loc[p].value)
       IN /\ Returned(r, "Set", loc[p].key, loc[p].value)
          /\ Reporting(r.calls)
    /\ used' = Touch(used, loc[p].key)
    /\ pc' = [pc EXCEPT ![p] = "unlock"]
    /\ sinceFlush' = <<>>
    /\ UNCHANGED <<mu, flush, capacity, ttl, addFunc, removalFunc, touchOnUpdate, now, sum,
                   cmu, loc>>

IncrUnlock(p) ==
    /\ pc[p] = "unlock"
    /\ Unlock(p)
    /\ pc' = [pc EXCEPT ![p] = "idle"]
    /\ op' = [name |-> "Unlock", key |-> Nil, arg |-> Nil, ok |-> FALSE, v |-> Nil]
    /\ calls' = <<>>
    /\ loads' = 0
    /\ UNCHANGED <<mu, flush, capacity, ttl, addFunc, removalFunc, touchOnUpdate, list, table,
                   now, used, sinceFlush, sum, reported, loc>>

NextIncr ==
    \/ \E p \in Procs, key \in Keys, delta \in Deltas : IncrCall(p, key, delta)
    \/ \E p \in Procs : IncrLock(p)
    \/ \E p \in Procs : IncrGet(p)
    \/ \E p \in Procs : IncrSet(p)
    \/ \E p \in Procs : IncrUnlock(p)
    \/ Tick

SpecIncr == InitCounter /\ [][NextIncr]_vars

\* -------------------------- a Flush running beside calls of another goroutine
\* Flush never takes lru.mu, so each of its statements is a step of its own. Set,
\* Get and Delete hold lru.mu from entry to return and are one step each; the
\* cache has no TTL here, so an element leaves the list exactly when its key does.
NilElement == [Key |-> Nil, Value |-> Nil, at |-> "nil"]

\* the loop variable e: an element of the list ("in"), nil, or an element that
\* list.Remove has unlinked ("out") and whose entry e still points to
ElementAt(l, i) == [Key |-> l[i].Key, Value |-> l[i].Value, at |-> "in"]

Front(l) == IF l = <<>> THEN NilElement ELSE ElementAt(l, 1)

\* e.Next(): nil for the last element and for an unlinked one
NextElement(l, e) ==
    IF e.at = "in" /\ Element(l, e.Key) < Len(l)
    THEN ElementAt(l, Element(l, e.Key) + 1)
    ELSE NilElement

\* New with a ttl of 0: a cache without TTL
InitLRU == New /\ ttl = 0 /\ Idle

FlushCall ==
    /\ flush.pc = "idle"
    /\ flush' = [NoFlush EXCEPT !.pc = "loop",
                                !.e = IF removalFunc THEN Front(list) ELSE NilElement]
    /\ op' = [name |-> "FlushCall", key |-> Nil, arg |-> Nil, ok |-> FALSE, v |-> Nil]
    /\ calls' = <<>>
    /\ loads' = 0
    /\ UNCHANGED <<mu, capacity, ttl, addFunc, removalFunc, touchOnUpdate, list, table,
                   now, used, sinceFlush, sum, reported, pc, cmu, loc>>

\* one turn of the loop: the callback on e's entry, then e = e.Next()
FlushBody ==
    /\ flush.pc = "loop"
    /\ flush.e.at # "nil"
    /\ LET e == flush.e
           n == IF e.at = "in" THEN list[Element(list, e.Key)] ELSE e
       IN /\ calls' = <<<<n.Key, n.Value>>>>
          /\ flush' = [flush EXCEPT
                          !.e = NextElement(list, e),
                          !.seen = IF e.at = "in" THEN @ \cup {e.Key} ELSE @,
                          !.twice = @ \/ e.at = "out" \/ e.Key \in flush.seen]
          /\ op' = [name |-> "FlushBody", key |-> n.Key, arg |-> Nil, ok |-> FALSE,
                    v |-> n.Value]
    /\ loads' = 0
    /\ UNCHANGED <<mu, capacity, ttl, addFunc, removalFunc, touchOnUpdate, list, table,
                   now, used, sinceFlush, sum, reported, pc, cmu, loc>>

\* the loop ends on e == nil; list.Init() empties the list
FlushInit ==
    /\ flush.pc = "loop"
    /\ flush.e.at = "nil"
    /\ list' = <<>>
    /\ flush' = [flush EXCEPT !.pc = "table", !.seen = {},
                              !.lost = IF removalFunc THEN ListKeys(list) \ flush.seen
                                       ELSE {}]
    /\ op' = [name |-> "FlushInit", key |-> Nil, arg |-> Nil, ok |-> FALSE, v |-> Nil]
    /\ calls' = <<>>
    /\ loads' = 0
    /\ UNCHANGED <<mu, capacity, ttl, addFunc, removalFunc, touchOnUpdate, table,
                   now, used, sinceFlush, sum, reported, pc, cmu, loc>>

\* lru.table = make(...), and Flush returns
FlushTable ==
    /\ flush.pc = "table"
    /\ table' = {}
    /\ flush' = [flush EXCEPT !.pc = "idle"]
    /\ op' = [name |-> "FlushTable", key |-> Nil, arg |-> Nil, ok |-> FALSE, v |-> Nil]
    /\ calls' = <<>>
    /\ loads' = 0
    /\ UNCHANGED <<mu, capacity, ttl, addFunc, removalFunc, touchOnUpdate, list,
                   now, used, sinceFlush, sum, reported, pc, cmu, loc>>

\* Between list.Init() and the new table, the old table still holds the elements
\* Init cut loose; only calls on keys outside it are followed there.
Reachable(key) == flush.pc = "table" => key \notin table

\* what a call of the other goroutine that turned the list into l does to the
\* Flush: an element it removed was reported by the call, a second time if the
\* loop had reported it already, and if e points to it, e now points outside the list
Meeting(l) ==
    LET gone == ListKeys(list) \ ListKeys(l)
    IN flush' = [flush EXCEPT
                    !.seen = @ \ gone,
                    !.twice = @ \/ (removalFunc /\ gone \cap flush.seen # {}),
                    !.e = IF @.at = "in" /\ @.Key \in gone
                          THEN [Key |-> @.Key, Value |-> list[Element(list, @.Key)].Value,
                                at |-> "out"]
                          ELSE @]

RacingGet(key) ==
    /\ Reachable(key)
    /\ \E lv \in Values :
          LET r == Get(Entering, key, lv)
          IN Returned(r, "Get", key, Nil) /\ Meeting(r.list)
    /\ UNCHANGED <<mu, capacity, ttl, addFunc, removalFunc, touchOnUpdate,
                   now, used, sinceFlush, sum, reported, pc, cmu, loc>>

RacingSet(key, value) ==
    /\ Reachable(key)
    /\ LET r == Set(Entering, key, value)
       IN Returned(r, "Set", key, value) /\ Meeting(r.list)
    /\ UNCHANGED <<mu, capacity, ttl, addFunc, removalFunc, touchOnUpdate,
                   now, used, sinceFlush, sum, reported, pc, cmu, loc>>

RacingDelete(key) ==
    /\ Reachable(key)
    /\ LET r == Delete(Entering, key)
       IN Returned(r, "Delete", key, Nil) /\ Meeting(r.list)
    /\ UNCHANGED <<mu, capacity, ttl, addFunc, removalFunc, touchOnUpdate,
                   now, used, sinceFlush, sum, reported, pc, cmu, loc>>

NextFlush ==
    \/ FlushCall
    \/ FlushBody
    \/ FlushInit
    \/ FlushTable
    \/ \E key \in Keys : RacingGet(key)
    \/ \E key \in Keys, value \in Values : RacingSet(key, value)
    \/ \E key \in Keys : RacingDelete(key)

SpecFlush == InitLRU /\ [][NextFlush]_vars

\* --------------------------------- Len beside calls that insert into the cache
\* Len never takes lru.mu. A call that inserts holds lru.mu from entry to return,
\* and Len can run between its PushFront and its checkCapacity.
pushNew(s, key, value) ==
    [s EXCEPT !.list = PushFront(@, [Key |-> key, Value |-> value,
                                     lastUpdate |-> IF ttl > 0 THEN now
                                                    ELSE ZeroTime]),
              !.table = @ \cup {key}]

LenCall(p) ==
    /\ pc[p] = "idle"
    /\ op' = [name |-> "Len", key |-> Nil, arg |-> Nil, ok |-> FALSE, v |-> LenOf(list)]
    /\ calls' = <<>>
    /\ loads' = 0
    /\ UNCHANGED <<mu, flush, capacity, ttl, addFunc, removalFunc, touchOnUpdate, list,
                   table, now, used, sinceFlush, sum, reported, pc, cmu, loc>>

\* Set up to addNew's checkCapacity; on a resident key, the whole of Set
SetCall(p, key, value) ==
    /\ pc[p] = "idle"
    /\ mu = 0
    /\ IF key \in table
       THEN /\ Returned(Set(Entering, key, value), "Set", key, value)
            /\ UNCHANGED <<mu, pc>>
       ELSE /\ Returned(pushNew(Entering, key, value), "Set", key, value)
            /\ mu' = p
            /\ pc' = [pc EXCEPT ![p] = "checkCapacity"]
    /\ UNCHANGED <<flush, capacity, ttl, addFunc, removalFunc, touchOnUpdate,
                   now, used, sinceFlush, sum, reported, cmu, loc>>

\* Get up to addNew's checkCapacity; on a hit, or a miss without loader, the
\* whole of Get
GetCall(p, key) ==
    /\ pc[p] = "idle"
    /\ mu = 0
    /\ \E lv \in Values :
          IF key \notin table /\ addFunc
          THEN /\ Returned([pushNew(Entering, key, lv) EXCEPT
                               !.loads = 1, !.ok = TRUE, !.v = lv], "Get", key, Nil)
               /\ mu' = p
               /\ pc' = [pc EXCEPT ![p] = "checkCapacity"]
          ELSE /\ Returned(Get(Entering, key, lv), "Get", key, Nil)
               /\ UNCHANGED <<mu, pc>>
    /\ UNCHANGED <<flush, capacity, ttl, addFunc, removalFunc, touchOnUpdate,
                   now, used, sinceFlush, sum, reported, cmu, loc>>

\* addNew's checkCapacity, and the deferred Unlock
CheckCapacity(p) ==
    /\ pc[p] = "checkCapacity"
    /\ LET r == checkCapacity(Entering)
       IN /\ list' = r.list
          /\ table' = r.table
          /\ calls' = r.calls
    /\ mu' = 0
    /\ pc' = [pc EXCEPT ![p] = "idle"]
    /\ op' = [name |-> "checkCapacity", key |-> Nil, arg |-> Nil, ok |-> FALSE,
              v |-> Nil]
    /\ loads' = 0
    /\ UNCHANGED <<flush, capacity, ttl, addFunc, removalFunc, touchOnUpdate,
                   now, used, sinceFlush, sum, reported, cmu, loc>>

NextLen ==
    \/ \E p \in Procs : LenCall(p)
    \/ \E p \in Procs, key \in Keys, value \in Values : SetCall(p, key, value)
    \/ \E p \in Procs, key \in Keys : GetCall(p, key)
    \/ \E p \in Procs : CheckCapacity(p)

SpecLen == InitLRU /\ [][NextLen]_vars

\* ----------------------------- LRUCounter.Flush beside goroutines calling Incr
\* LRUCounter.Flush goes to lru.Flush without c.Lock(), and lru.Flush takes no
\* lru.mu: its statements run between the Get and the Set of an Incr. The Get and
\* Set of an Incr are not followed between list.Init() and the new table, where
\* list and table part ways (see FlushTable).
InitLRUCounter == InitCounter /\ ttl = 0

\* one turn of lru.Flush's loop; the counter's removalFunc gets the total
CounterFlushBody ==
    /\ flush.pc = "loop"
    /\ flush.e.at # "nil"
    /\ LET e == flush.e
           n == IF e.at = "in" THEN list[Element(list, e.Key)] ELSE e
       IN /\ calls' = <<<<n.Key, n.Value>>>>
          /\ Reporting(<<<<n.Key, n.Value>>>>)
          /\ flush' = [flush EXCEPT
                          !.e = NextElement(list, e),
                          !.seen = IF e.at = "in" THEN @ \cup {e.Key} ELSE @,
                          !.twice = @ \/ e.at = "out" \/ e.Key \in flush.seen]
          /\ op' = [name |-> "FlushBody", key |-> n.Key, arg |-> Nil, ok |-> FALSE,
                    v |-> n.Value]
    /\ loads' = 0
    /\ UNCHANGED <<mu, capacity, ttl, addFunc, removalFunc, touchOnUpdate, list, table,
                   now, used, sinceFlush, sum, pc, cmu, loc>>

RacingIncrGet(p) ==
    /\ pc[p] = "get"
    /\ flush.pc # "table"
    /\ LET r == Get(Entering, loc[p].key, Nil)
       IN /\ Returned(r, "Get", loc[p].key, Nil)
          /\ Reporting(r.calls)
          /\ Meeting(r.list)
          /\ loc' = [loc EXCEPT ![p].value = IF r.ok THEN @ + r.v ELSE @]
    /\ pc' = [pc EXCEPT ![p] = "set"]
    /\ UNCHANGED <<mu, capacity, ttl, addFunc, removalFunc, touchOnUpdate, now,
                   used, sinceFlush, sum, cmu>>

RacingIncrSet(p) ==
    /\ pc[p] = "set"
    /\ flush.pc # "table"
    /\ LET r == Set(Entering, loc[p].key, loc[p].value)
       IN /\ Returned(r, "Set", loc[p].key, loc[p].value)
          /\ Reporting(r.calls)
          /\ Meeting(r.list)
    /\ pc' = [pc EXCEPT ![p] = "unlock"]
    /\ UNCHANGED <<mu, capacity, ttl, addFunc, removalFunc, touchOnUpdate, now,
                   used, sinceFlush, sum, cmu, loc>>

NextCounterFlush ==
    \/ \E p \in Procs, key \in Keys, delta \in Deltas : IncrCall(p, key, delta)
    \/ \E p \in Procs : IncrLock(p)
    \/ \E p \in Procs : RacingIncrGet(p)
    \/ \E p \in Procs : RacingIncrSet(p)
    \/ \E p \in Procs : IncrUnlock(p)
    \/ FlushCall
    \/ CounterFlushBody
    \/ FlushInit
    \/ FlushTable

SpecCounterFlush == InitLRUCounter /\ [][NextCounterFlush]_vars

\* ------------------------------------------ calls whose removal callback panics
\* A panic in removalFunc ends the call where the callback was invoked; the
\* deferred lru.mu.Unlock() runs, and the caller sees the panic instead of a result.

\* checkCapacity up to a callback that panics: the back element is out already
checkCapacityPanic(s) ==
    LET delValue == Back(s.list)
    IN Notify([s EXCEPT !.list = RemoveAt(@, Len(s.list)),
                        !.table = @ \ {delValue.Key}], delValue)

\* Delete that has removed the element by the time its callback panics
DeletePanic_RemoveFirst(s, key) ==
    LET i == Element(s.list, key)
    IN [Notify(s, s.list[i]) EXCEPT !.list = RemoveAt(@, i), !.table = @ \ {key}]

\* Delete up to a callback that panics: the element is still in place
DeletePanic(s, key) == Notify(s, s.list[Element(s.list, key)])

\* Get up to a callback that panics: on an expired entry, which is still in
\* place, or in the checkCapacity of addNew after the loader
GetPanic(s, key, lv) ==
    IF key \in s.table
    THEN Notify(s, s.list[Element(s.list, key)])
    ELSE checkCapacityPanic([pushNew(s, key, lv) EXCEPT !.loads = 1])

\* Set up to a callback that panics, in the checkCapacity of addNew
SetPanic(s, key, value) == checkCapacityPanic(pushNew(s, key, value))

Panicked(r, name, key, arg) ==
    /\ Returned(r, name, key, arg)
    /\ mu' = 0
    /\ UNCHANGED <<flush, capacity, ttl, addFunc, removalFunc, touchOnUpdate,
                   now, sum, reported, pc, cmu, loc>>

CallSetPanic(key, value) ==
    /\ removalFunc
    /\ mu = 0
    /\ key \notin table
    /\ Len(list) + 1 > capacity
    /\ Panicked(SetPanic(Entering, key, value), "SetPanic", key, value)
    /\ used' = Touch(used, key)
    /\ Inserting(key)

CallGetPanic(key) ==
    /\ removalFunc
    /\ mu = 0
    /\ IF key \in table
       THEN /\ ttl > 0
            /\ now - list[Element(list, key)].lastUpdate > ttl
            /\ Panicked(GetPanic(Entering, key, Nil), "GetPanic", key, Nil)
            /\ UNCHANGED used
       ELSE /\ addFunc
            /\ Len(list) + 1 > capacity
            /\ \E lv \in Values :
                  Panicked(GetPanic(Entering, key, lv), "GetPanic", key, Nil)
            /\ used' = Touch(used, key)
    /\ sinceFlush' = <<>>

CallDeletePanic(key) ==
    /\ removalFunc
    /\ mu = 0
    /\ key \in table
    /\ Panicked(DeletePanic(Entering, key), "DeletePanic", key, Nil)
    /\ sinceFlush' = <<>>
    /\ UNCHANGED used

NextPanic ==
    \/ Next
    \/ \E key \in Keys, value \in Values : CallSetPanic(key, value)
    \/ \E key \in Keys : CallGetPanic(key)
    \/ \E key \in Keys : CallDeletePanic(key)

SpecPanic == Init /\ [][NextPanic]_vars

\* ------------------------------------------------------------- the claims
Resident(l, key) == \E i \in 1..Len(l) : l[i].Key = key

EntryOf(l, key) == l[CHOOSE i \in 1..Len(l) : l[i].Key = key]

Without(l, key) == SelectSeq(l, LAMBDA e : e.Key # key)

Range(s) == {s[i] : i \in 1..Len(s)}

Pair(e) == <<e.Key, e.Value>>

\* the age Get compares with the ttl
Expired(e) == ttl > 0 /\ now - e.lastUpdate > ttl

\* C1: after every Set, Get, Delete and Flush on a cache of capacity >= 1,
\* Len() <= Capacity().
C1_LenWithinCapacity == LenOf(list) <= Capacity

\* a Set that inserted into a full cache and evicted another key
C1_Witness ==
    /\ op.name = "Set"
    /\ Len(calls) = 1
    /\ calls[1][1] # op.key
    /\ LenOf(list) = Capacity

\* C2: the recency list, front to back, is the resident keys ordered by most
\* recent use (insertion, Set, Get hit), newest first; the key a Set or a loading
\* Get evicts for capacity is the resident key whose most recent use is the oldest.
C2_OrderedByUse ==
    \A i, j \in 1..Len(list) : i < j => used[list[i].Key] > used[list[j].Key]

C2_VictimIsOldest ==
    \A k \in ListKeys(list) \ ListKeys(list') :
        (op'.name \in {"Set", "Get"} /\ k # op'.key)
            => \A j \in ListKeys(list) : used[k] <= used[j]

C2_LRUOrder == [][C2_OrderedByUse' /\ C2_VictimIsOldest]_vars

\* an insert into a full cache of two entries evicted one key and kept the other
C2_Witness ==
    /\ capacity = 2
    /\ op.name \in {"Set", "Get"}
    /\ Len(calls) = 1
    /\ calls[1][1] # op.key
    /\ Len(list) = 2
    /\ list[1].Key = op.key
    /\ used[calls[1][1]] > 0

\* C3: with a removal callback, the invocations a call makes are exactly the
\* entries that leave the cache in that call (evicted for capacity, deleted,
\* flushed, or found expired by Get), once each, with the key and the value the
\* entry held; no invocation is made for an entry that stays.
Leaving ==
    {Pair(list[i]) : i \in {n \in 1..Len(list) :
        \/ ~Resident(list', list[n].Key)
        \/ op'.name = "Get" /\ op'.key = list[n].Key /\ Expired(list[n])}}

C3_OneCallPerRemoval ==
    [][removalFunc => (Range(calls') = Leaving /\ Len(calls') = Cardinality(Leaving))]_vars

\* Get found an expired entry and there is no loader
C3_Witness ==
    /\ removalFunc
    /\ op.name = "Get"
    /\ ~op.ok
    /\ Len(calls) = 1
    /\ calls[1][1] = op.key

\* C4: on an LRUCounter the sum of all deltas passed to Incr equals the sum of
\* the totals the removal callback received plus the sum of the totals still
\* resident, after every call; after a Flush the reported totals are all of it.
ResidentTotal(k) ==
    SumSeq([i \in 1..Len(SelectSeq(list, LAMBDA e : e.Key = k)) |->
               SelectSeq(list, LAMBDA e : e.Key = k)[i].Value])

ResidentSum == SumSeq([i \in 1..Len(list) |-> list[i].Value])

C4_Conservation ==
    /\ SumOver(sum, Keys) = SumOver(reported, Keys) + ResidentSum
    /\ op.name = "Flush" => (ResidentSum = 0 /\ SumOver(reported, Keys) = SumOver(sum, Keys))

\* an Incr found its key expired: the stale total was reported, the delta starts
\* a new total, and totals were reported before
C4_Witness ==
    /\ op.name = "Incr"
    /\ Len(calls) = 1
    /\ calls[1][1] = op.key
    /\ EntryOf(list, op.key).Value = op.arg
    /\ reported[op.key] > calls[1][2]

\* C5: concurrent Incr calls lose no update: for every key, the deltas passed
\* to Incr are the totals reported for it, plus its resident total, plus the
\* deltas of the calls that have not yet done their Set; so when no call is in
\* progress the resident total of a key that was not removed is the sum of its deltas.
Pending(k) ==
    SumOver([p \in Procs |->
                IF pc[p] \in {"lock", "get", "set"} /\ loc[p].key = k
                THEN loc[p].delta ELSE 0], Procs)

C5_NoLostUpdate ==
    \A k \in Keys : sum[k] = reported[k] + ResidentTotal(k) + Pending(k)

\* one goroutine is between its Get and its Set on a resident key while another
\* waits in Incr for the same key
C5_Witness ==
    \E p, q \in Procs :
        /\ pc[p] = "set"
        /\ pc[q] = "lock"
        /\ loc[p].key = loc[q].key
        /\ Resident(list, loc[p].key)
        /\ loc[p].value > loc[p].delta

\* C6: Flush invokes the removal callback once for each resident entry, leaves
\* the cache empty with Capacity() unchanged; a Get without loader then misses,
\* and Capacity() distinct keys can then be inserted without any eviction.
C6_FlushStep ==
    op'.name = "Flush" =>
        /\ list' = <<>>
        /\ table' = {}
        /\ capacity' = capacity
        /\ removalFunc =>
              /\ Len(calls') = Len(list)
              /\ Range(calls') = {Pair(list[i]) : i \in 1..Len(list)}

C6_AfterFlush ==
    /\ (sinceFlush = <<{}>> /\ op'.name = "Get" /\ ~addFunc)
          => (~op'.ok /\ op'.v = Nil)
    /\ sinceFlush' # <<>> =>
          /\ ListKeys(list') = sinceFlush'[1]
          /\ Len(list') = Cardinality(sinceFlush'[1])
          /\ op'.name # "Flush" => calls' = <<>>

C6_Flush == [][C6_FlushStep /\ C6_AfterFlush]_vars

\* after a Flush, Capacity() distinct keys were inserted and all are resident
C6_Witness ==
    /\ removalFunc
    /\ capacity = MaxCap
    /\ sinceFlush # <<>>
    /\ Cardinality(sinceFlush[1]) = capacity
    /\ Len(list) = capacity
    /\ calls = <<>>

\* C7: with a loader and no TTL, Get calls the loader once if the key is not
\* resident, inserts the loaded value at the front and returns it; on a resident
\* key it returns the stored value and does not call the loader.
C7_LoaderStep ==
    (addFunc /\ ttl = 0 /\ op'.name = "Get") =>
        LET key == op'.key
        IN IF Resident(list, key)
           THEN /\ loads' = 0
                /\ op'.ok
                /\ op'.v = EntryOf(list, key).Value
                /\ calls' = <<>>
           ELSE /\ loads' = 1
                /\ op'.ok
                /\ Len(list') > 0
                /\ list'[1].Key = key
                /\ list'[1].Value = op'.v
                /\ Without(list', key) = SubSeq(list, 1, Len(list') - 1)
                /\ Len(list) < capacity => (calls' = <<>> /\ Len(list') = Len(list) + 1)

C7_Loader == [][C7_LoaderStep /\ (op'.name # "Get" => loads' = 0)]_vars

\* a Get loaded a key into a full cache
C7_Witness ==
    /\ addFunc
    /\ ttl = 0
    /\ op.name = "Get"
    /\ loads = 1
    /\ Len(calls) = 1
    /\ list[1].Key = op.key

\* C8: with a TTL, a Set on a resident key resets the entry's age while
\* touch-on-update is enabled and leaves it unchanged once it is disabled; Get
\* reports the entry expired (one callback) exactly when that age exceeds the TTL.
C8_SetStep ==
    (ttl > 0 /\ op'.name = "Set" /\ Resident(list, op'.key)) =>
        /\ Resident(list', op'.key)
        /\ calls' = <<>>
        /\ EntryOf(list', op'.key).lastUpdate =
              IF touchOnUpdate THEN now ELSE EntryOf(list, op'.key).lastUpdate

C8_GetStep ==
    (ttl > 0 /\ removalFunc /\ op'.name = "Get" /\ Resident(list, op'.key)) =>
        IF now - EntryOf(list, op'.key).lastUpdate > ttl
        THEN Len(calls') = 1 /\ calls'[1] = Pair(EntryOf(list, op'.key))
        ELSE calls' = <<>> /\ op'.ok

C8_TouchOnUpdate == [][C8_SetStep /\ C8_GetStep]_vars

\* touch-on-update is disabled and a Set on a resident key kept its timestamp
C8_Witness ==
    /\ ~touchOnUpdate
    /\ op.name = "Set"
    /\ calls = <<>>
    /\ list[1].Key = op.key
    /\ list[1].lastUpdate < now

\* C9: with a TTL, Get on a resident key of age <= TTL is a hit; on one of age
\* > TTL it invokes the callback once with the stale pair, removes the entry and
\* goes on as a miss: (nil, false) and one entry less without a loader, a fresh
\* loaded entry and (value, true) with one.
C9_Hit(e) ==
    /\ op'.ok
    /\ op'.v = e.Value
    /\ calls' = <<>>
    /\ loads' = 0
    /\ Resident(list', e.Key)
    /\ Len(list') = Len(list)

C9_Stale(e) ==
    /\ removalFunc => calls' = <<Pair(e)>>
    /\ IF addFunc
       THEN /\ op'.ok
            /\ loads' = 1
            /\ list' = <<[Key |-> e.Key, Value |-> op'.v, lastUpdate |-> now]>>
                          \o Without(list, e.Key)
            /\ e.Key \in table'
       ELSE /\ ~op'.ok
            /\ op'.v = Nil
            /\ loads' = 0
            /\ list' = Without(list, e.Key)
            /\ Len(list') = Len(list) - 1
            /\ e.Key \notin table'

C9_GetStep ==
    (ttl > 0 /\ op'.name = "Get" /\ Resident(list, op'.key)) =>
        LET e == EntryOf(list, op'.key)
        IN IF now - e.lastUpdate <= ttl THEN C9_Hit(e) ELSE C9_Stale(e)

C9_Expiry == [][C9_GetStep]_vars

\* Get found an expired entry and loaded a fresh one
C9_Witness ==
    /\ ttl > 0
    /\ addFunc
    /\ op.name = "Get"
    /\ loads = 1
    /\ Len(calls) = 1
    /\ calls[1][1] = op.key

\* C10: Delete returns true exactly when the key was resident; then the callback
\* got the key and its value once and the key is gone; otherwise no callback and
\* nothing changes; the other entries and their order are unchanged.
C10_DeleteStep ==
    op'.name = "Delete" =>
        LET key == op'.key
        IN /\ op'.ok = Resident(list, key)
           /\ list' = Without(list, key)
           /\ table' = table \ {key}
           /\ IF op'.ok
              THEN /\ removalFunc => calls' = <<Pair(EntryOf(list, key))>>
                   /\ ~Resident(list', key)
                   /\ key \notin table'
              ELSE /\ calls' = <<>>
                   /\ list' = list
                   /\ table' = table

C10_Delete == [][C10_DeleteStep]_vars

\* Delete removed the back entry of a full cache
C10_Witness ==
    /\ removalFunc
    /\ op.name = "Delete"
    /\ op.ok
    /\ Len(calls) = 1
    /\ calls[1][1] = op.key
    /\ Len(list) = MaxCap - 1
    /\ used[op.key] < used[list[1].Key]

\* C11: without a loader, Get on a key that is not resident returns (nil, false)
\* and changes nothing: no entry is created, keys, values, order and Len() stay,
\* and the removal callback is not invoked.
C11_MissStep ==
    (~addFunc /\ op'.name = "Get" /\ ~Resident(list, op'.key)) =>
        /\ ~op'.ok
        /\ op'.v = Nil
        /\ list' = list
        /\ table' = table
        /\ LenOf(list') = LenOf(list)
        /\ calls' = <<>>
        /\ loads' = 0

C11_Miss == [][C11_MissStep]_vars

\* a Get without loader missed on a full cache that has no TTL
C11_Witness ==
    /\ ~addFunc
    /\ ttl = 0
    /\ op.name = "Get"
    /\ ~op.ok
    /\ ~Resident(list, op.key)
    /\ Len(list) = capacity

\* C12: FlushN(n) removes the min(n, Len()) least recently used entries and
\* reports each once, the least recently used first; the other entries and their
\* order stay; with n >= Len() the cache is left empty.
Min(a, b) == IF a <= b THEN a ELSE b

C12_FlushNStep ==
    op'.name = "FlushN" =>
        LET m == Min(op'.arg, Len(list))
        IN /\ list' = SubSeq(list, 1, Len(list) - m)
           /\ table' = ListKeys(list')
           /\ removalFunc => calls' = [i \in 1..m |-> Pair(list[Len(list) + 1 - i])]
           /\ op'.arg >= Len(list) => (list' = <<>> /\ table' = {})

C12_FlushN == [][C12_FlushNStep]_vars

\* FlushN(2) reported two entries, the less recently used one first
C12_Witness ==
    /\ op.name = "FlushN"
    /\ op.arg = 2
    /\ Len(calls) = 2
    /\ used[calls[1][1]] < used[calls[2][1]]

\* C13: Flush invokes the removal callback on the resident entries in least- to
\* most-recently-used order: first the entry capacity eviction would have removed
\* next, last the most recently used.
C13_LRUFirst ==
    [][(op'.name = "Flush" /\ removalFunc) =>
          calls' = [i \in 1..Len(list) |-> Pair(list[Len(list) + 1 - i])]]_vars

\* C13, as amended: Flush invokes the removal callback on the resident entries in
\* most- to least-recently-used order, front of the list to back: first the most
\* recently used, last the entry capacity eviction would have removed next.
C13_MRUFirst ==
    [][(op'.name = "Flush" /\ removalFunc) =>
          calls' = [i \in 1..Len(list) |-> Pair(list[i])]]_vars

\* Flush reported two entries, the more recently used one first
C13_Witness ==
    /\ op.name = "Flush"
    /\ Len(calls) = 2
    /\ used[calls[1][1]] > used[calls[2][1]]

\* C14: a Flush running beside Set, Get and Delete calls of another goroutine ends
\* as some serial order of the calls would: no entry has left the cache without a
\* removal callback, none was reported twice, and index and list agree.
C14_FlushAtomic ==
    flush.pc = "idle" =>
        /\ flush.lost = {}
        /\ ~flush.twice
        /\ table = ListKeys(list)

\* C15: no Len() call, even one running beside a Set or a loading Get that
\* inserts into a full cache, returns more than Capacity().
C15_LenNeverAbove == op.name = "Len" => op.v <= Capacity

\* C16: with TTL and touch-on-update enabled, a Get that hits refreshes the
\* entry's timestamp, so a key read by Get at intervals no longer than the TTL
\* never expires.
C16_GetRefreshes ==
    [][(/\ ttl > 0
        /\ touchOnUpdate
        /\ op'.name = "Get"
        /\ Resident(list, op'.key)
        /\ ~Expired(EntryOf(list, op'.key))) =>
          /\ Resident(list', op'.key)
          /\ EntryOf(list', op'.key).lastUpdate = now]_vars

\* C16, as amended: with a TTL, a Get that hits leaves the entry's timestamp as
\* it was, with touch-on-update enabled or not; a key that is only read expires
\* at the first Get that comes more than the TTL after its creation or its last
\* refreshing Set: the entry is removed, and a loader's value starts a new age.
C16_GetStep ==
    (ttl > 0 /\ op'.name = "Get" /\ Resident(list, op'.key)) =>
        LET e == EntryOf(list, op'.key)
        IN IF now - e.lastUpdate > ttl
           THEN IF addFunc
                THEN Resident(list', op'.key) /\ EntryOf(list', op'.key).lastUpdate = now
                ELSE ~Resident(list', op'.key) /\ ~op'.ok
           ELSE /\ op'.ok
                /\ Resident(list', op'.key)
                /\ EntryOf(list', op'.key).lastUpdate = e.lastUpdate

C16_GetKeepsTimestamp == [][C16_GetStep]_vars

\* touch-on-update is enabled and a Get hit an entry that is older than the
\* clock's last tick: the entry kept its timestamp
C16_Witness ==
    /\ ttl > 0
    /\ touchOnUpdate
    /\ ~addFunc
    /\ op.name = "Get"
    /\ op.ok
    /\ EntryOf(list, op.key).lastUpdate < now

PanicNames == {"SetPanic", "GetPanic", "DeletePanic"}

\* C17: when the removal callback panics in a capacity eviction, a Delete or a
\* TTL expiry in Get, the removal is complete already: the reported entry is in
\* neither index nor list, index and list agree, and the cache lock is released.
C17_RemovalComplete ==
    op.name \in PanicNames =>
        /\ calls[1][1] \notin table
        /\ ~Resident(list, calls[1][1])
        /\ table = ListKeys(list)
        /\ mu = 0

\* C17, as amended: when the removal callback panics, index and list agree, the
\* cache holds no more than its capacity and the cache lock is released. In a
\* capacity eviction the removal is complete: the reported back entry is in
\* neither index nor list. In a Delete and in a TTL expiry in Get the callback
\* comes before the removal: the cache is as it was before the call, the reported
\* entry still resident, to be reported again when it is removed.
C17_PanicStep ==
    op'.name \in PanicNames =>
        /\ table' = ListKeys(list')
        /\ LenOf(list') <= Capacity
        /\ mu' = 0
        /\ Len(calls') = 1
        /\ IF Resident(list, op'.key)
           THEN /\ op'.name \in {"GetPanic", "DeletePanic"}
                /\ calls'[1] = Pair(EntryOf(list, op'.key))
                /\ list' = list
                /\ table' = table
           ELSE /\ op'.name \in {"GetPanic", "SetPanic"}
                /\ calls'[1] = Pair(Back(list))
                /\ ~Resident(list', Back(list).Key)
                /\ Back(list).Key \notin table'
                /\ list'[1].Key = op'.key

C17_Panic == [][C17_PanicStep]_vars

\* the callback panicked in a Get on an expired entry, and the entry it was
\* given is still in the cache
C17_Witness ==
    /\ op.name = "GetPanic"
    /\ calls[1][1] = op.key
    /\ Resident(list, op.key)
    /\ op.key \in table

\* C18: after any sequence of Set, Get, Delete and Flush calls, loader inserts,
\* capacity evictions and TTL expiry included, the keys of the index are the keys
\* of the list's entries, no key is in the list twice, and Len() is the number
\* of index keys.
C18_IndexIsList ==
    /\ table = ListKeys(list)
    /\ \A i, j \in 1..Len(list) : list[i].Key = list[j].Key => i = j
    /\ LenOf(list) = Cardinality(table)

\* a Get found its entry expired, reported it and loaded the key anew, beside
\* another entry
C18_Witness ==
    /\ op.name = "Get"
    /\ Len(calls) = 1
    /\ calls[1][1] = op.key
    /\ loads = 1
    /\ Len(list) = 2
    /\ table = {list[1].Key, list[2].Key}

\* the entries a call on another key removed: its capacity evictions
Evicted == {i \in 1..Len(list) : list[i].Key # op'.key /\ ~Resident(list', list[i].Key)}

\* C19: a Set or Get call evicts at most one entry for capacity, and evicts one
\* exactly when its key was not resident and Len() was Capacity() before the
\* call; the victim is the back entry of the list as it stood before the call.
C19_EvictsIffFull ==
    [][op'.name \in {"Set", "Get"} =>
          /\ Cardinality(Evicted) <= 1
          /\ Evicted # {} <=> (~Resident(list, op'.key) /\ LenOf(list) = Capacity)
          /\ Evicted \subseteq {Len(list)}]_vars

\* C19, as amended: a Set or Get call evicts at most one entry for capacity, and
\* evicts one exactly when the call inserts (a Set, or a Get with a loader), its
\* key was not resident and Len() was Capacity() before the call; the victim is
\* the back entry of the list as it stood before the call, and the callback, if
\* set, is told of it. A Get miss without loader, a Set on a resident key, a Get
\* hit and a Get that replaces an expired entry evict nothing.
C19_EvictStep ==
    op'.name \in {"Set", "Get"} =>
        /\ Cardinality(Evicted) <= 1
        /\ Evicted # {} <=> /\ op'.name = "Set" \/ addFunc
                            /\ ~Resident(list, op'.key)
                            /\ LenOf(list) = Capacity
        /\ Evicted \subseteq {Len(list)}
        /\ (Evicted # {} /\ removalFunc) => calls' = <<Pair(Back(list))>>

C19_Evict == [][C19_EvictStep]_vars

\* a Get loaded a key into a full cache and the callback was told of the entry
\* that made room for it
C19_Witness ==
    /\ op.name = "Get"
    /\ addFunc
    /\ loads = 1
    /\ Len(calls) = 1
    /\ calls[1][1] # op.key
    /\ Len(list) = capacity
    /\ list[1].Key = op.key

\* C20: a Get that hits (key resident and not expired) changes nothing but the
\* order: the hit entry becomes the front, the other entries keep their order,
\* the resident keys, every stored value and Len() stay as they were, and
\* neither the loader nor the removal callback is invoked.
C20_HitStep ==
    (/\ op'.name = "Get"
     /\ Resident(list, op'.key)
     /\ ~Expired(EntryOf(list, op'.key))) =>
        /\ list' = <<EntryOf(list, op'.key)>> \o Without(list, op'.key)
        /\ table' = table
        /\ LenOf(list') = LenOf(list)
        /\ loads' = 0
        /\ calls' = <<>>
        /\ op'.ok
        /\ op'.v = EntryOf(list, op'.key).Value

C20_Hit == [][C20_HitStep]_vars

\* a Get hit one of two entries of a cache that has a loader, a callback and a
\* TTL, some time after the entry was written
C20_Witness ==
    /\ op.name = "Get"
    /\ op.ok
    /\ addFunc
    /\ removalFunc
    /\ ttl > 0
    /\ loads = 0
    /\ calls = <<>>
    /\ Len(list) = 2
    /\ list[1].Key = op.key
    /\ list[1].lastUpdate < now

\* the keys of the resident entries whose age exceeds the TTL
Stale == {list[i].Key : i \in {j \in 1..Len(list) : Expired(list[j])}}

\* a Set on a resident key whose entry is expired keeps the entry, overwrites
\* its value and moves it to the front, and the callback is not invoked
C21_SetOnStale ==
    (op'.name = "Set" /\ op'.key \in Stale) =>
        /\ LenOf(list') = LenOf(list)
        /\ list'[1].Key = op'.key
        /\ list'[1].Value = op'.arg
        /\ Without(list', op'.key) = Without(list, op'.key)
        /\ table' = table
        /\ calls' = <<>>

\* C21: expiry is detected only by Get on that key: an expired entry stays
\* resident, counted by Len(), while Get and Set calls on other keys run, and a
\* Set on the expired key keeps it resident, overwrites its value and moves it to
\* the front without invoking the removal callback.
C21_StaysResident ==
    [][/\ op'.name \in {"Get", "Set"} =>
             \A k \in Stale \ {op'.key} : Resident(list', k)
       /\ C21_SetOnStale]_vars

\* C21, as amended: no call removes an entry for its age but a Get on its key.
\* While Get and Set calls on other keys run, an expired entry stays resident
\* and unchanged, counted by Len(), unless it is the back entry and the call
\* inserts a key into a full cache, which evicts it for capacity as it would a
\* fresh entry; time passing removes nothing. A Set on the expired key keeps it
\* resident, overwrites its value and moves it to the front without invoking
\* the removal callback.
C21_OtherKeyStep ==
    op'.name \in {"Get", "Set"} =>
        \A k \in Stale \ {op'.key} :
            IF /\ op'.name = "Set" \/ addFunc
               /\ ~Resident(list, op'.key)
               /\ LenOf(list) = Capacity
               /\ Back(list).Key = k
            THEN ~Resident(list', k) /\ (removalFunc => calls' = <<Pair(Back(list))>>)
            ELSE /\ Resident(list', k)
                 /\ EntryOf(list', k) = EntryOf(list, k)
                 /\ LenOf(list') >= Cardinality(Stale \ {op'.key})

C21_LazyExpiry ==
    [][/\ C21_OtherKeyStep
       /\ C21_SetOnStale
       /\ op'.name = "Tick" => list' = list /\ table' = table]_vars

\* a Set has overwritten an expired entry, which is still expired and now at the
\* front, beside another expired entry, and the callback was not invoked
C21_Witness ==
    /\ removalFunc
    /\ op.name = "Set"
    /\ calls = <<>>
    /\ Len(list) = 2
    /\ list[1].Key = op.key
    /\ list[1].Value = op.arg
    /\ Expired(list[1])
    /\ Expired(list[2])

\* C22: however Incr calls interleave with a Flush issued from another goroutine
\* on the same LRUCounter, once they have all returned the totals the removal
\* callback received plus the totals still resident are the sum of all deltas
\* passed to Incr: no delta is lost and no total is reported twice.
C22_FlushConserves ==
    (flush.pc = "idle" /\ \A p \in Procs : pc[p] = "idle") =>
        SumOver(sum, Keys) = SumOver(reported, Keys) + ResidentSum

\* C23: for every capacity, 1 included, when Set(k, v) returns k is resident with
\* value v at the front, and when a loading Get(k) returns the loaded value is
\* resident at the front: the insert never evicts the entry it inserted, so a
\* Get(k) that follows at once, within the TTL, returns (v, true) without a call
\* to the loader.
C23_Inserted ==
    (op.name = "Set" \/ (op.name = "Get" /\ loads = 1)) =>
        LET v == IF op.name = "Set" THEN op.arg ELSE op.v
        IN /\ Len(list) >= 1
           /\ list[1].Key = op.key
           /\ list[1].Value = v
           /\ op.key \in table
           /\ op.name = "Get" => (op.ok /\ ~Expired(list[1]))
           /\ op.name = "Set" =>
                /\ \A i \in 1..Len(calls) : calls[i][1] # op.key
                /\ touchOnUpdate => ~Expired(list[1])
           /\ ~Expired(list[1]) =>
                \A lv \in Values :
                    LET r == Get(Entering, op.key, lv)
                    IN r.ok /\ r.v = v /\ r.loads = 0 /\ r.calls = <<>>

\* a Set on a cache of capacity 1 has evicted the entry of another key, and its
\* own entry is the one resident
C23_Witness ==
    /\ capacity = 1
    /\ op.name = "Set"
    /\ Len(calls) = 1
    /\ calls[1][1] # op.key
    /\ Len(list) = 1
    /\ list[1].Key = op.key
    /\ list[1].Value = op.arg

====
